---- MODULE Spec2Model ----
(***************************************************************************)
(* Counter<T, C> of src/src/counter.rs: a hash map from items to counts    *)
(* plus a cached zero of the count type.                                   *)
(*                                                                         *)
(* The item type T is a small set of keys, looked up through borrowed      *)
(* views (&Q).  The count type C is an unsigned integer of `bits` bits;    *)
(* the width and the build's overflow-checks setting are fixed when the    *)
(* program is built and are chosen in Init.                                *)
(***************************************************************************)
EXTENDS Integers, Sequences, FiniteSets, TLC

\* ---------------------------------------------------------------- bounds
\* longest iterable handed to init / update
MaxLen == 3
\* most items a counter fed only by init / update consumes
MaxItems == 8

\* ------------------------------------------------------------ item type T
Keys == {"a", "b"}

\* T: Borrow<Q> -- the borrowed view of an owned item
Borrow(t) == <<"ref", t>>

\* Q: ToOwned<Owned = T> -- key.to_owned()
ToOwned(q) == q[2]

BorrowedKeys == {Borrow(t) : t \in Keys}

\* iterables of at most MaxLen items
Iterables == UNION {[1..n -> Keys] : n \in 0..MaxLen}

\* ----------------------------------------------------------- count type C
\* C is instantiated with two unsigned integer types, 1 and 4 bits wide
\* (standing for u8 ... usize; the default parameter is usize)
Widths == {1, 4}

Modulus(b) == 2 ^ b

MaxCount(b) == Modulus(b) - 1

\* values the caller adds through a mutable handle
Addends == {1, 5}

\* C::zero()
CZero == 0

\* C::one()
COne == 1

\* <C as Default>::default()
CDefault == 0

\* x += y on a b-bit unsigned integer: the exact sum when it fits; otherwise
\* a panic when the build checks overflow and the wrapped sum when not
AddAssign(x, y, b, chk) ==
    IF x + y <= MaxCount(b)
    THEN [val |-> x + y, panicked |-> FALSE]
    ELSE IF chk
         THEN [val |-> x, panicked |-> TRUE]
         ELSE [val |-> (x + y) % Modulus(b), panicked |-> FALSE]

\* ------------------------------------------------------------- the mapping
\* AHashMap::new()
EmptyMap == [t \in {} |-> 0]

\* self.map.get(key): the entry whose borrowed form equals the key
MapGet(m, q) ==
    LET hit == {t \in DOMAIN m : Borrow(t) = q}
    IN IF hit = {} THEN <<"None">> ELSE <<"Some", m[CHOOSE t \in hit : TRUE]>>

\* Option::unwrap_or
UnwrapOr(opt, dflt) == IF opt[1] = "Some" THEN opt[2] ELSE dflt

\* self.map.get(key).unwrap_or(&self.zero)
IndexValue(m, z, q) == UnwrapOr(MapGet(m, q), z)

\* a lookup that inserts the unit where the code inserts zero
EntryOrInsertOne(m, t) ==
    IF t \in DOMAIN m THEN m
    ELSE [u \in DOMAIN m \cup {t} |-> IF u = t THEN COne ELSE m[u]]

\* self.map.entry(item).or_insert_with(C::zero): the map afterwards
EntryOrInsertZero(m, t) ==
    IF t \in DOMAIN m THEN m
    ELSE [u \in DOMAIN m \cup {t} |-> IF u = t THEN CZero ELSE m[u]]

\* a loop that stores the unit for each item instead of adding it
RECURSIVE UpdateLoopStore(_, _, _, _)
UpdateLoopStore(m, s, b, chk) ==
    IF s = <<>>
    THEN [map |-> m, panicked |-> FALSE]
    ELSE LET item == Head(s)
             m1 == [u \in DOMAIN m \cup {item} |-> IF u = item THEN COne ELSE m[u]]
         IN UpdateLoopStore(m1, Tail(s), b, chk)

\* the for loop of update: stops at the first panicking increment
RECURSIVE UpdateLoop(_, _, _, _)
UpdateLoop(m, s, b, chk) ==
    IF s = <<>>
    THEN [map |-> m, panicked |-> FALSE]
    ELSE LET item == Head(s)
             m1 == EntryOrInsertZero(m, item)
             r == AddAssign(m1[item], COne, b, chk)
         IN IF r.panicked
            THEN [map |-> m1, panicked |-> TRUE]
            ELSE UpdateLoop([m1 EXCEPT ![item] = r.val], Tail(s), b, chk)

\* the orders in which a hash map may yield its entries
RECURSIVE Orders(_)
Orders(S) ==
    IF S = {} THEN {<<>>}
    ELSE UNION {{<<t>> \o rest : rest \in Orders(S \ {t})} : t \in S}

\* self.map.iter(): the (item, count) pairs in one such order
IterPairs(m, ord) == [i \in 1..Len(ord) |-> <<ord[i], m[ord[i]]>>]

\* a fold that counts the entries (Iterator::count) instead of adding them up
SumFoldCount(acc, pairs, b, chk) ==
    [val |-> (acc + Len(pairs)) % Modulus(b), panicked |-> FALSE]

\* Iterator::sum over the counts: a fold with + from zero
RECURSIVE SumFold(_, _, _, _)
SumFold(acc, pairs, b, chk) ==
    IF pairs = <<>>
    THEN [val |-> acc, panicked |-> FALSE]
    ELSE LET r == AddAssign(acc, Head(pairs)[2], b, chk)
         IN IF r.panicked THEN r ELSE SumFold(r.val, Tail(pairs), b, chk)

\* ------------------------------------------------------------------ state
VARIABLES
    bits,       \* width of the count type C
    checks,     \* TRUE when the build checks integer overflow
    st,         \* "none" | "live" | "panicked" | "consumed"
    map,        \* Counter.map
    zero,       \* Counter.zero
    ctx,        \* the last constructing or mutating call (update: only the
                \* length of its iterable, in n), kept while nothing but
                \* indexed reads follow it
    obs,        \* the last read-only call since then, with what it returned
    items,      \* items consumed by init / update; -1 once a caller wrote
    mentioned   \* keys passed to init, update or index_mut so far

vars == <<bits, checks, st, map, zero, ctx, obs, items, mentioned>>

NoCall == [op |-> "none", key |-> "-", arg |-> <<>>, n |-> 0, absent |-> FALSE]

Call(op, key, arg, n, absent) ==
    [op |-> op, key |-> key, arg |-> arg, n |-> n, absent |-> absent]

NoObs == [op |-> "none", key |-> "-", ret |-> 0]

Obs(op, key, ret) == [op |-> op, key |-> key, ret |-> ret]

Range(s) == {s[i] : i \in 1..Len(s)}

Init ==
    /\ bits \in Widths
    /\ checks \in BOOLEAN
    /\ st = "none"
    /\ map = EmptyMap
    /\ zero = 0
    /\ ctx = NoCall
    /\ obs = NoObs
    /\ items = 0
    /\ mentioned = {}

\* Counter::new()
New ==
    /\ st = "none"
    /\ st' = "live"
    /\ map' = EmptyMap
    /\ zero' = CZero
    /\ ctx' = Call("new", "-", <<>>, 0, FALSE)
    /\ obs' = NoObs
    /\ UNCHANGED <<bits, checks, items, mentioned>>

\* a default construction whose cached zero is the unit
DefaultOne ==
    /\ st = "none"
    /\ st' = "live"
    /\ map' = EmptyMap
    /\ zero' = COne
    /\ ctx' = Call("default", "-", <<>>, 0, FALSE)
    /\ obs' = NoObs
    /\ UNCHANGED <<bits, checks, items, mentioned>>

\* <Counter as Default>::default()
Default ==
    /\ st = "none"
    /\ st' = "live"
    /\ map' = EmptyMap
    /\ zero' = CDefault
    /\ ctx' = Call("default", "-", <<>>, 0, FALSE)
    /\ obs' = NoObs
    /\ UNCHANGED <<bits, checks, items, mentioned>>

\* an init that drops the first item of its iterable
CounterInitSkipFirst(s) ==
    /\ st = "none"
    /\ LET r == UpdateLoop(EmptyMap, IF s = <<>> THEN s ELSE Tail(s), bits, checks)
       IN /\ map' = r.map
          /\ st' = IF r.panicked THEN "panicked" ELSE "live"
    /\ zero' = CZero
    /\ ctx' = Call("init", "-", s, 0, FALSE)
    /\ obs' = NoObs
    /\ items' = Len(s)
    /\ mentioned' = Range(s)
    /\ UNCHANGED <<bits, checks>>

\* Counter::init(iterable): new() followed by update(iterable)
CounterInit(s) ==
    /\ st = "none"
    /\ LET r == UpdateLoop(EmptyMap, s, bits, checks)
       IN /\ map' = r.map
          /\ st' = IF r.panicked THEN "panicked" ELSE "live"
    /\ zero' = CZero
    /\ ctx' = Call("init", "-", s, 0, FALSE)
    /\ obs' = NoObs
    /\ items' = Len(s)
    /\ mentioned' = Range(s)
    /\ UNCHANGED <<bits, checks>>

\* an update that rebuilds the map from its iterable alone
UpdateReplace(s) ==
    /\ st = "live"
    /\ items = -1 \/ items + Len(s) <= MaxItems
    /\ LET r == UpdateLoop(EmptyMap, s, bits, checks)
       IN /\ map' = r.map
          /\ st' = IF r.panicked THEN "panicked" ELSE "live"
    /\ ctx' = Call("update", "-", <<>>, Len(s), FALSE)
    /\ obs' = NoObs
    /\ items' = IF items = -1 THEN -1 ELSE items + Len(s)
    /\ mentioned' = mentioned \cup Range(s)
    /\ UNCHANGED <<bits, checks, zero>>

\* counter.update(iterable)
Update(s) ==
    /\ st = "live"
    /\ items = -1 \/ items + Len(s) <= MaxItems
    /\ LET r == UpdateLoop(map, s, bits, checks)
       IN /\ map' = r.map
          /\ st' = IF r.panicked THEN "panicked" ELSE "live"
    /\ ctx' = Call("update", "-", <<>>, Len(s), FALSE)
    /\ obs' = NoObs
    /\ items' = IF items = -1 THEN -1 ELSE items + Len(s)
    /\ mentioned' = mentioned \cup Range(s)
    /\ UNCHANGED <<bits, checks, zero>>

\* a read that goes through the inserting entry API
IndexInserts(q) ==
    /\ st = "live"
    /\ map' = EntryOrInsertZero(map, ToOwned(q))
    /\ obs' = Obs("index", ToOwned(q), map'[ToOwned(q)])
    /\ UNCHANGED <<bits, checks, st, zero, ctx, items, mentioned>>

\* a read that unwraps the lookup and so panics on a miss
IndexUnwrap(q) ==
    /\ st = "live"
    /\ st' = IF MapGet(map, q)[1] = "Some" THEN "live" ELSE "panicked"
    /\ obs' = Obs("index", ToOwned(q), IndexValue(map, zero, q))
    /\ UNCHANGED <<bits, checks, map, zero, ctx, items, mentioned>>

\* counter[&key]
Index(q) ==
    /\ st = "live"
    /\ obs' = Obs("index", ToOwned(q), IndexValue(map, zero, q))
    /\ UNCHANGED <<bits, checks, st, map, zero, ctx, items, mentioned>>

\* &mut counter[&key], the handle only read
IndexMut(q) ==
    /\ st = "live"
    /\ map' = EntryOrInsertZero(map, ToOwned(q))
    /\ ctx' = Call("index_mut", ToOwned(q), <<>>, 0, ToOwned(q) \notin DOMAIN map)
    /\ obs' = NoObs
    /\ mentioned' = mentioned \cup {ToOwned(q)}
    /\ UNCHANGED <<bits, checks, st, zero, items>>

\* a write that stores n instead of adding it
IndexMutAssign(q, n) ==
    /\ st = "live"
    /\ n <= MaxCount(bits)
    /\ LET t == ToOwned(q)
           m1 == EntryOrInsertZero(map, t)
       IN /\ map' = [m1 EXCEPT ![t] = n]
          /\ st' = "live"
          /\ ctx' = Call("add_assign", t, <<>>, n, t \notin DOMAIN map)
          /\ mentioned' = mentioned \cup {t}
    /\ obs' = NoObs
    /\ items' = -1
    /\ UNCHANGED <<bits, checks, zero>>

\* counter[&key] += n
IndexMutAddAssign(q, n) ==
    /\ st = "live"
    /\ n <= MaxCount(bits)
    /\ LET t == ToOwned(q)
           m1 == EntryOrInsertZero(map, t)
           r == AddAssign(m1[t], n, bits, checks)
       IN /\ map' = [m1 EXCEPT ![t] = r.val]
          /\ st' = IF r.panicked THEN "panicked" ELSE "live"
          /\ ctx' = Call("add_assign", t, <<>>, n, t \notin DOMAIN map)
          /\ mentioned' = mentioned \cup {t}
    /\ obs' = NoObs
    /\ items' = -1
    /\ UNCHANGED <<bits, checks, zero>>

\* a total that drains the map while summing
TotalDrains ==
    /\ st = "live"
    /\ \E ord \in Orders(DOMAIN map) :
         LET r == SumFold(0, IterPairs(map, ord), bits, checks)
         IN /\ st' = IF r.panicked THEN "panicked" ELSE "live"
            /\ obs' = Obs("total", "-", r.val)
    /\ map' = EmptyMap
    /\ ctx' = NoCall
    /\ UNCHANGED <<bits, checks, zero, items, mentioned>>

\* counter.total()
Total ==
    /\ st = "live"
    /\ \E ord \in Orders(DOMAIN map) :
         LET r == SumFold(0, IterPairs(map, ord), bits, checks)
         IN /\ st' = IF r.panicked THEN "panicked" ELSE "live"
            /\ obs' = Obs("total", "-", r.val)
    /\ ctx' = NoCall
    /\ UNCHANGED <<bits, checks, map, zero, items, mentioned>>

\* counter.get_map()
GetMap ==
    /\ st = "live"
    /\ obs' = Obs("get_map", "-", map)
    /\ ctx' = NoCall
    /\ UNCHANGED <<bits, checks, st, map, zero, items, mentioned>>

\* (&counter).into_iter(), run to the end
IterRef ==
    /\ st = "live"
    /\ \E ord \in Orders(DOMAIN map) : obs' = Obs("iter", "-", IterPairs(map, ord))
    /\ ctx' = NoCall
    /\ UNCHANGED <<bits, checks, st, map, zero, items, mentioned>>

\* counter.into_map()
IntoMap ==
    /\ st = "live"
    /\ st' = "consumed"
    /\ obs' = Obs("into_map", "-", map)
    /\ ctx' = NoCall
    /\ UNCHANGED <<bits, checks, map, zero, items, mentioned>>

\* counter.into_iter(), run to the end
IntoIter ==
    /\ st = "live"
    /\ st' = "consumed"
    /\ \E ord \in Orders(DOMAIN map) : obs' = Obs("into_iter", "-", IterPairs(map, ord))
    /\ ctx' = NoCall
    /\ UNCHANGED <<bits, checks, map, zero, items, mentioned>>

Next ==
    \/ New
    \/ Default
    \/ \E s \in Iterables : CounterInit(s)
    \/ \E s \in Iterables : Update(s)
    \/ \E q \in BorrowedKeys : Index(q)
    \/ \E q \in BorrowedKeys : IndexMut(q)
    \/ \E q \in BorrowedKeys, n \in Addends : IndexMutAddAssign(q, n)
    \/ Total
    \/ GetMap
    \/ IterRef
    \/ IntoMap
    \/ IntoIter

Spec == Init /\ [][Next]_vars

\* ------------------------------------------------------------ properties
\* occurrences of x in the sequence s
Occurrences(x, s) == Cardinality({i \in 1..Len(s) : s[i] = x})

\* the exact (unbounded) sum of the stored counts
RECURSIVE ExactSum(_)
ExactSum(m) ==
    IF DOMAIN m = {} THEN 0
    ELSE LET t == CHOOSE u \in DOMAIN m : TRUE
         IN m[t] + ExactSum([u \in DOMAIN m \ {t} |-> m[u]])

\* the exact sum of the counts a full iteration yielded
RECURSIVE PairsSum(_)
PairsSum(pairs) ==
    IF pairs = <<>> THEN 0 ELSE Head(pairs)[2] + PairsSum(Tail(pairs))

\* the stored count of t, or the additive identity
StoredOrZero(m, t) == IF t \in DOMAIN m THEN m[t] ELSE 0

IsIndexStep == obs'.op = "index" /\ obs' # obs
IsIndexMutStep == ctx'.op = "index_mut" /\ obs' = NoObs
IsWriteStep == ctx'.op = "add_assign" /\ obs' = NoObs /\ st = "live"
IsEmptyUpdateStep == ctx'.op = "update" /\ ctx'.n = 0 /\ obs' = NoObs /\ st = "live"

\* C1: a read-only indexed lookup returns the stored count of a present key
\* and 0 for an absent one, and changes neither the mapping nor the cached zero.
C1_IndexIsPureRead ==
    [][IsIndexStep =>
          /\ obs'.ret = StoredOrZero(map, obs'.key)
          /\ map' = map
          /\ DOMAIN map' = DOMAIN map
          /\ zero' = zero
          /\ st' = st]_vars

C1_Witness ==
    /\ obs.op = "index"
    /\ obs.key \notin DOMAIN map
    /\ obs.ret = 0
    /\ \E t \in DOMAIN map : map[t] > 0

\* C2: a mutable indexed lookup of an absent key inserts exactly that key with
\* the additive identity and changes no other entry, though nothing is written
\* through the handle; of a present key it changes nothing.
C2_IndexMutInsertsZeroOnce ==
    [][IsIndexMutStep =>
          LET k == ctx'.key
          IN /\ ctx'.absent = (k \notin DOMAIN map)
             /\ IF k \notin DOMAIN map
                THEN /\ DOMAIN map' = DOMAIN map \cup {k}
                     /\ Cardinality(DOMAIN map') = Cardinality(DOMAIN map) + 1
                     /\ map'[k] = 0
                     /\ \A u \in DOMAIN map : map'[u] = map[u]
                ELSE map' = map
             /\ zero' = zero
             /\ st' = st]_vars

C2_Witness ==
    /\ ctx.op = "index_mut"
    /\ ctx.absent
    /\ obs = NoObs
    /\ map[ctx.key] = 0
    /\ \E u \in DOMAIN map : u # ctx.key /\ map[u] > 0

\* C3 as stated: after init(s), a read-only lookup of any x returns the number
\* of occurrences of x in s.
C3_InitCountsOccurrences ==
    (ctx.op = "init" /\ obs.op = "index" /\ st = "live")
        => obs.ret = Occurrences(obs.key, ctx.arg)

\* C3 amended: after init(s), a read-only lookup of x returns the number of
\* occurrences of x in s whenever that number fits the count type, and init
\* panics only when some item occurs more often than that in a checked build.
C3_InitCountsRepresentableOccurrences ==
    /\ (ctx.op = "init" /\ obs.op = "index"
          /\ Occurrences(obs.key, ctx.arg) <= MaxCount(bits))
        => obs.ret = Occurrences(obs.key, ctx.arg)
    /\ (ctx.op = "init" /\ st = "panicked")
        => checks /\ \E x \in Keys : Occurrences(x, ctx.arg) > MaxCount(bits)
    /\ (ctx.op = "init" /\ obs = NoObs /\ st = "live"
          /\ \A x \in Keys : Occurrences(x, ctx.arg) <= MaxCount(bits))
        => \A x \in Keys :
              IndexValue(map, zero, Borrow(x)) = Occurrences(x, ctx.arg)

C3_Witness ==
    /\ ctx.op = "init"
    /\ Len(ctx.arg) = 3
    /\ obs.op = "index"
    /\ obs.ret = 2
    /\ Occurrences(obs.key, ctx.arg) = 2
    /\ Cardinality(DOMAIN map) = 2

\* C4 as stated: for a counter fed only by init / update, total() returns the
\* number of items fed and the sum of the counts a full iteration yields.
C4_TotalIsLength ==
    (items >= 0 /\ obs.op = "total")
        => /\ st = "live"
           /\ obs.ret = items
           /\ \A ord \in Orders(DOMAIN map) : PairsSum(IterPairs(map, ord)) = obs.ret

\* C4 amended: the same, provided the number of items fed does not exceed the
\* largest value of the count type; and total() never changes the counter.
C4_TotalIsRepresentableLength ==
    /\ []((items >= 0 /\ items <= MaxCount(bits) /\ obs.op = "total")
            => /\ st = "live"
               /\ obs.ret = items
               /\ \A ord \in Orders(DOMAIN map) :
                     PairsSum(IterPairs(map, ord)) = obs.ret)
    /\ [][(obs'.op = "total" /\ obs' # obs) => (map' = map /\ zero' = zero)]_vars

C4_Witness ==
    /\ items >= 3
    /\ obs.op = "total"
    /\ obs.ret = items
    /\ st = "live"
    /\ Cardinality(DOMAIN map) = 2

\* C5: adding n through the handle of a previously absent key makes a later
\* read-only lookup of that key return n; adding through the handle of a
\* present key accumulates on its one entry (5 then 5 gives 10).
C5_WriteThenRead ==
    /\ []((ctx.op = "add_assign" /\ ctx.absent /\ obs.op = "index"
             /\ obs.key = ctx.key) => obs.ret = ctx.n)
    /\ []((ctx.op = "add_assign" /\ obs.op = "index" /\ obs.key = ctx.key)
            => obs.ret = map[ctx.key])
    /\ [][(IsWriteStep
             /\ StoredOrZero(map, ctx'.key) + ctx'.n <= MaxCount(bits))
          => /\ st' = "live"
             /\ DOMAIN map' = DOMAIN map \cup {ctx'.key}
             /\ map'[ctx'.key] = StoredOrZero(map, ctx'.key) + ctx'.n
             /\ \A u \in DOMAIN map \ {ctx'.key} : map'[u] = map[u]]_vars

C5_Witness ==
    /\ ctx.op = "add_assign"
    /\ ~ctx.absent
    /\ ctx.n = 5
    /\ obs.op = "index"
    /\ obs.key = ctx.key
    /\ obs.ret = 10
    /\ DOMAIN map = {ctx.key}

\* C6: init(s) leaves the mapping and the cached zero that new() followed by
\* update(s) leaves.
C6_InitIsNewThenUpdate ==
    (ctx.op = "init" /\ obs = NoObs)
        => LET afterNew == [map |-> EmptyMap, zero |-> CZero]
               r == UpdateLoop(afterNew.map, ctx.arg, bits, checks)
           IN /\ map = r.map
              /\ zero = afterNew.zero
              /\ (st = "panicked") = r.panicked

C6_Witness ==
    /\ ctx.op = "init"
    /\ obs = NoObs
    /\ st = "live"
    /\ Len(ctx.arg) = 3
    /\ Cardinality(DOMAIN map) = 2

\* C7: update with an empty sequence changes neither the key set, nor any
\* value, nor the cached zero, nor what total() computes.
C7_EmptyUpdateChangesNothing ==
    [][IsEmptyUpdateStep =>
          /\ DOMAIN map' = DOMAIN map
          /\ \A t \in DOMAIN map : map'[t] = map[t]
          /\ zero' = zero
          /\ st' = "live"
          /\ \A ord \in Orders(DOMAIN map) :
                SumFold(0, IterPairs(map', ord), bits, checks)
                    = SumFold(0, IterPairs(map, ord), bits, checks)]_vars

C7_Witness ==
    /\ ctx.op = "update"
    /\ ctx.n = 0
    /\ obs = NoObs
    /\ st = "live"
    /\ \E t \in DOMAIN map : map[t] > 0

\* C8 as stated: no sequence of operations reaches a panic.
C8_NeverPanics == st # "panicked"

\* C8 amended: a panic is reached only in a build that checks overflow, and
\* only by an increment in init / update, a caller's addition through the
\* handle or the summation in total whose exact result exceeds the largest
\* value of the count type; a build without the checks never panics.
C8_PanicsOnlyOnOverflow ==
    st = "panicked" =>
        /\ checks
        /\ \/ /\ ctx.op \in {"init", "update"}
              /\ obs = NoObs
              /\ \E t \in DOMAIN map : map[t] + COne > MaxCount(bits)
           \/ /\ ctx.op = "add_assign"
              /\ obs = NoObs
              /\ map[ctx.key] + ctx.n > MaxCount(bits)
           \/ /\ obs.op = "total"
              /\ ExactSum(map) > MaxCount(bits)

C8_Witness ==
    /\ st = "panicked"
    /\ obs.op = "total"
    /\ \A t \in DOMAIN map : map[t] < MaxCount(bits)

C10_KeysWereMentioned ==
    /\ [](DOMAIN map \subseteq mentioned)
    /\ [][DOMAIN map \subseteq DOMAIN map']_vars
    /\ [][(obs' # obs /\ obs' # NoObs) => DOMAIN map' = DOMAIN map]_vars

C10_Witness ==
    /\ obs.op = "index"
    /\ obs.key \notin mentioned
    /\ obs.key \notin DOMAIN map
    /\ mentioned # {}
    /\ DOMAIN map = mentioned

====
